---- MODULE Spec2Model ----
(***************************************************************************)
(* Model of BrowserOptions.get_chrome_options_with_disabled_popups         *)
(* (resources/libraries/BrowserOptions.py).                                *)
(*                                                                         *)
(* The method is modelled statement by statement.  Python objects live on  *)
(* a heap: an Options object holds its argument list and its experimental  *)
(* options, the latter a dict from option name to a REFERENCE to the value *)
(* passed in (the prefs dict), so that aliasing between configurations is  *)
(* something the model can exhibit.  Several threads may be inside the     *)
(* method at once; their statements interleave.  Callers may extend a      *)
(* configuration they were handed, and may set attributes on a            *)
(* BrowserOptions instance.                                                *)
(***************************************************************************)
EXTENDS Integers, Sequences, FiniteSets, TLC

\* Threads that may call the method, and BrowserOptions instances (receivers).
Threads == {"t1", "t2"}
Instances == {"b1", "b2"}

\* Total number of calls started in a behaviour in which threads interleave.
MaxCalls == 2
\* Total number of calls started in a behaviour of one thread calling in sequence.
MaxSeqCalls == 3
\* Total number of caller-side steps (extending a returned configuration,
\* setting an attribute on an instance) in a behaviour.
MaxExt == 2

VARIABLES
    pc,        \* pc[t]: statement thread t is at ("idle": outside the method)
    self,      \* self[t]: receiver of thread t's current call ("none" outside)
    options,   \* options[t]: the local variable `options` (heap id, 0 = unbound)
    optHeap,   \* heap of Options objects, id = index
    dictHeap,  \* heap of dict objects, id = index
    attrs,     \* attrs[b]: the __dict__ of BrowserOptions instance b
    log,       \* log[t]: library calls made so far by thread t's current call
    conc,      \* conc[t]: another call was in progress during t's current call
    results,   \* one record per completed call, in order of return
    extended,  \* caller-side extensions made to returned configurations
    started,   \* number of calls started
    nExt       \* number of caller-side steps taken

vars == <<pc, self, options, optHeap, dictHeap, attrs, log, conc, results,
          extended, started, nExt>>

-----------------------------------------------------------------------------
(* Python values and library operations used by the method *)

\* {}
EmptyDict == [k \in {} |-> 0]

\* d[k] = v
DictSet(d, k, v) == [x \in (DOMAIN d) \cup {k} |-> IF x = k THEN v ELSE d[x]]

\* Options(): a new object with no arguments and no experimental options.
NewOptions == [arguments |-> <<>>, experimental_options |-> EmptyDict]

\* Options.add_experimental_option(name, value): stores the reference.
add_experimental_option(o, name, ref) ==
    [o EXCEPT !.experimental_options = DictSet(@, name, ref)]

\* Options.add_argument(argument) for a non-empty argument: appends it.
add_argument(o, argument) ==
    [o EXCEPT !.arguments = Append(@, argument)]

\* The value of configuration o: its arguments, and its experimental options
\* with each referenced dict read through.
Val(o) ==
    [arguments |-> optHeap[o].arguments,
     experimental_options |->
        [n \in DOMAIN optHeap[o].experimental_options |->
            dictHeap[optHeap[o].experimental_options[n]]]]

InCall == {"L11", "L14", "L24", "L25", "L26", "L27", "L28", "L30"}

-----------------------------------------------------------------------------
(* The dict display of lines 14-21, built key by key in source order *)

PrefsLiteral_Notif1 ==
    DictSet(DictSet(DictSet(DictSet(DictSet(EmptyDict,
        "credentials_enable_service", FALSE),
        "profile.password_manager_enabled", FALSE),
        "profile.default_content_setting_values.notifications", 1),
        "profile.password_manager_leak_detection", FALSE),
        "password_manager_leak_detection", FALSE)

PrefsLiteral_Dedup ==
    DictSet(DictSet(DictSet(DictSet(DictSet(EmptyDict,
        "credentials_enable_service", FALSE),
        "profile.password_manager_enabled", FALSE),
        "profile.default_content_setting_values.notifications", 2),
        "profile.password_manager_leak_detection", FALSE),
        "profile.password_manager_leak_detection", FALSE)

PrefsLiteral ==
    DictSet(DictSet(DictSet(DictSet(DictSet(EmptyDict,
        "credentials_enable_service", FALSE),
        "profile.password_manager_enabled", FALSE),
        "profile.default_content_setting_values.notifications", 2),
        "profile.password_manager_leak_detection", FALSE),
        "password_manager_leak_detection", FALSE)

-----------------------------------------------------------------------------
(* Initial state: no call made, empty heap, instances without attributes *)

Init ==
    /\ pc = [t \in Threads |-> "idle"]
    /\ self = [t \in Threads |-> "none"]
    /\ options = [t \in Threads |-> 0]
    /\ optHeap = <<>>
    /\ dictHeap = <<>>
    /\ attrs = [b \in Instances |-> EmptyDict]
    /\ log = [t \in Threads |-> <<>>]
    /\ conc = [t \in Threads |-> FALSE]
    /\ results = <<>>
    /\ extended = {}
    /\ started = 0
    /\ nExt = 0

\* Whether some other thread is inside the method.
Overlaps(t) == \E u \in Threads \ {t} : pc[u] \in InCall

\* Bookkeeping common to every statement of thread t: its position and its
\* log of library calls move on; the overlap marks change only at an entry.
Advance(t, next, call) ==
    /\ pc' = [pc EXCEPT ![t] = next]
    /\ log' = [log EXCEPT ![t] = Append(@, call)]
    /\ conc' = conc

\* Line 9: thread t enters the method on receiver b.  Two calls overlap from
\* the moment the later one is entered: the entry marks both.
Call(t, b) ==
    /\ pc[t] = "idle"
    /\ started' = started + 1
    /\ pc' = [pc EXCEPT ![t] = "L11"]
    /\ self' = [self EXCEPT ![t] = b]
    /\ log' = [log EXCEPT ![t] = <<>>]
    /\ conc' = [u \in Threads |->
                  IF u = t THEN Overlaps(t) ELSE conc[u] \/ pc[u] \in InCall]
    /\ UNCHANGED <<options, optHeap, dictHeap, attrs, results, extended, nExt>>

\* Faulty variant: one Options object shared by all calls.
Line11_SharedOptions(t) ==
    /\ pc[t] = "L11"
    /\ IF optHeap = <<>>
       THEN optHeap' = Append(optHeap, NewOptions)
       ELSE optHeap' = optHeap
    /\ options' = [options EXCEPT ![t] = 1]
    /\ Advance(t, "L14", "Options")
    /\ UNCHANGED <<self, dictHeap, attrs, results, extended, started, nExt>>

\* Faulty variant: `options` is a name shared by all threads, not a local.
Line11_GlobalOptions(t) ==
    /\ pc[t] = "L11"
    /\ optHeap' = Append(optHeap, NewOptions)
    /\ options' = [u \in Threads |-> Len(optHeap) + 1]
    /\ Advance(t, "L14", "Options")
    /\ UNCHANGED <<self, dictHeap, attrs, results, extended, started, nExt>>

\* Line 11: options = Options()
Line11(t) ==
    /\ pc[t] = "L11"
    /\ optHeap' = Append(optHeap, NewOptions)
    /\ options' = [options EXCEPT ![t] = Len(optHeap) + 1]
    /\ Advance(t, "L14", "Options")
    /\ UNCHANGED <<self, dictHeap, attrs, results, extended, started, nExt>>

\* Faulty variant: the prefs dict is one module-level object handed to every call.
Line14_SharedPrefs(t) ==
    /\ pc[t] = "L14"
    /\ IF dictHeap = <<>>
       THEN dictHeap' = Append(dictHeap, PrefsLiteral)
       ELSE dictHeap' = dictHeap
    /\ optHeap' = [optHeap EXCEPT ![options[t]] =
                      add_experimental_option(@, "prefs", 1)]
    /\ Advance(t, "L24", "add_experimental_option")
    /\ UNCHANGED <<self, options, attrs, results, extended, started, nExt>>

\* Faulty variant: the notifications setting is read from an attribute of self.
Line14_ReadsSelf(t) ==
    /\ pc[t] = "L14"
    /\ dictHeap' = Append(dictHeap,
          DictSet(PrefsLiteral,
                  "profile.default_content_setting_values.notifications",
                  IF "notifications" \in DOMAIN attrs[self[t]]
                  THEN attrs[self[t]]["notifications"] ELSE 2))
    /\ optHeap' = [optHeap EXCEPT ![options[t]] =
                      add_experimental_option(@, "prefs", Len(dictHeap) + 1)]
    /\ Advance(t, "L24", "add_experimental_option")
    /\ UNCHANGED <<self, options, attrs, results, extended, started, nExt>>

\* Lines 14-21: options.add_experimental_option("prefs", {...}); the dict
\* display allocates a new dict each time it is evaluated.
Line14(t) ==
    /\ pc[t] = "L14"
    /\ dictHeap' = Append(dictHeap, PrefsLiteral)
    /\ optHeap' = [optHeap EXCEPT ![options[t]] =
                      add_experimental_option(@, "prefs", Len(dictHeap) + 1)]
    /\ Advance(t, "L24", "add_experimental_option")
    /\ UNCHANGED <<self, options, attrs, results, extended, started, nExt>>

\* A statement options.add_argument(argument) at loc, followed by next.
\* The library rejects an empty argument with ValueError, which leaves the
\* method without a return.
AddArgumentStep(t, loc, next, argument) ==
    /\ pc[t] = loc
    /\ IF argument = ""
       THEN /\ optHeap' = optHeap
            /\ Advance(t, "raised", "ValueError")
       ELSE /\ optHeap' = [optHeap EXCEPT ![options[t]] =
                              add_argument(@, argument)]
            /\ Advance(t, next, "add_argument")
    /\ UNCHANGED <<self, options, dictHeap, attrs, results, extended,
                   started, nExt>>

\* Line 24
Line24(t) ==
    AddArgumentStep(t, "L24", "L25",
                    "--disable-blink-features=AutomationControlled")

\* Line 25
Line25(t) == AddArgumentStep(t, "L25", "L26", "--disable-extensions")

\* Faulty variant: a misspelt flag.
Line26_WrongFlag(t) == AddArgumentStep(t, "L26", "L27", "--disable-popups")

\* Line 26
Line26(t) == AddArgumentStep(t, "L26", "L27", "--disable-popup-blocking")

\* Faulty variant: the previous flag pasted again instead of --disable-infobars.
Line27_Duplicate(t) == AddArgumentStep(t, "L27", "L28", "--disable-extensions")

\* Line 27
Line27(t) == AddArgumentStep(t, "L27", "L28", "--disable-infobars")

\* Faulty variant: an empty argument, which add_argument rejects.
Line28_EmptyArg(t) == AddArgumentStep(t, "L28", "L30", "")

\* Line 28
Line28(t) == AddArgumentStep(t, "L28", "L30", "--disable-save-password-bubble")

\* What a completed call of thread t is recorded as.
ResultOf(t) ==
    [obj |-> options[t],
     prefsRef |-> IF "prefs" \in DOMAIN optHeap[options[t]].experimental_options
                  THEN optHeap[options[t]].experimental_options["prefs"]
                  ELSE 0,
     value |-> Val(options[t]),
     self |-> self[t],
     selfAttrs |-> attrs[self[t]],
     conc |-> conc[t],
     log |-> log[t]]

\* Faulty variant: the configuration is also cached on the receiver.
Line30_CachesOnSelf(t) ==
    /\ pc[t] = "L30"
    /\ results' = Append(results, ResultOf(t))
    /\ attrs' = [attrs EXCEPT ![self[t]] = DictSet(@, "_options", options[t])]
    /\ pc' = [pc EXCEPT ![t] = "idle"]
    /\ options' = [options EXCEPT ![t] = 0]
    /\ self' = [self EXCEPT ![t] = "none"]
    /\ log' = [log EXCEPT ![t] = <<>>]
    /\ conc' = [conc EXCEPT ![t] = FALSE]
    /\ UNCHANGED <<optHeap, dictHeap, extended, started, nExt>>

\* Line 30: return options
Line30(t) ==
    /\ pc[t] = "L30"
    /\ results' = Append(results, ResultOf(t))
    /\ pc' = [pc EXCEPT ![t] = "idle"]
    /\ options' = [options EXCEPT ![t] = 0]
    /\ self' = [self EXCEPT ![t] = "none"]
    /\ log' = [log EXCEPT ![t] = <<>>]
    /\ conc' = [conc EXCEPT ![t] = FALSE]
    /\ UNCHANGED <<optHeap, dictHeap, attrs, extended, started, nExt>>

-----------------------------------------------------------------------------
(* The method's callers *)

\* Configurations handed to callers so far.
Returned == {results[i].obj : i \in 1..Len(results)}

\* A caller adds one more flag to a configuration it was handed.
CallerAddArgument(o) ==
    /\ nExt < MaxExt
    /\ o \in Returned
    /\ optHeap' = [optHeap EXCEPT ![o] = add_argument(@, "--headless")]
    /\ extended' = extended \cup {[obj |-> o, at |-> Len(results)]}
    /\ nExt' = nExt + 1
    /\ UNCHANGED <<pc, self, options, dictHeap, attrs, log, conc, results, started>>

\* A caller adds one more preference to a configuration it was handed.
CallerAddPref(o) ==
    /\ nExt < MaxExt
    /\ o \in Returned
    /\ dictHeap' = [dictHeap EXCEPT ![optHeap[o].experimental_options["prefs"]] =
                       DictSet(@, "download.prompt_for_download", FALSE)]
    /\ extended' = extended \cup {[obj |-> o, at |-> Len(results)]}
    /\ nExt' = nExt + 1
    /\ UNCHANGED <<pc, self, options, optHeap, attrs, log, conc, results, started>>

\* A caller sets an attribute on a BrowserOptions instance.
SetAttr(b) ==
    /\ nExt < MaxExt
    /\ "notifications" \notin DOMAIN attrs[b]
    /\ attrs' = [attrs EXCEPT ![b] = DictSet(@, "notifications", 1)]
    /\ nExt' = nExt + 1
    /\ UNCHANGED <<pc, self, options, optHeap, dictHeap, log, conc, results,
                   extended, started>>

-----------------------------------------------------------------------------

\* One statement of thread t's call.
Step(t) ==
    \/ Line11(t)
    \/ Line14(t)
    \/ Line24(t)
    \/ Line25(t)
    \/ Line26(t)
    \/ Line27(t)
    \/ Line28(t)
    \/ Line30(t)

Next ==
    \/ started < MaxCalls /\ \E t \in Threads, b \in Instances : Call(t, b)
    \/ \E t \in Threads : Step(t)
    \/ \E o \in 1..Len(optHeap) : CallerAddArgument(o)
    \/ \E o \in 1..Len(optHeap) : CallerAddPref(o)
    \/ \E b \in Instances : SetAttr(b)

\* Any number of threads call the method; their statements interleave.
Spec == Init /\ [][Next]_vars

\* The thread that calls in SeqSpec.
SeqThread == "t1"

SeqNext ==
    \/ started < MaxSeqCalls /\ \E b \in Instances : Call(SeqThread, b)
    \/ Step(SeqThread)
    \/ \E o \in 1..Len(optHeap) : CallerAddArgument(o)
    \/ \E o \in 1..Len(optHeap) : CallerAddPref(o)
    \/ \E b \in Instances : SetAttr(b)

\* One thread calls the method again and again, each call after the last.
SeqSpec == Init /\ [][SeqNext]_vars

-----------------------------------------------------------------------------
(* The fixed payload the method is documented to produce *)

FixedPrefKeys ==
    {"credentials_enable_service",
     "profile.password_manager_enabled",
     "profile.default_content_setting_values.notifications",
     "profile.password_manager_leak_detection",
     "password_manager_leak_detection"}

FixedFlags ==
    <<"--disable-blink-features=AutomationControlled",
      "--disable-extensions",
      "--disable-popup-blocking",
      "--disable-infobars",
      "--disable-save-password-bubble">>

HasFixedPrefs(v) ==
    /\ "prefs" \in DOMAIN v.experimental_options
    /\ DOMAIN v.experimental_options["prefs"] = FixedPrefKeys
    /\ v.experimental_options["prefs"]["credentials_enable_service"] = FALSE
    /\ v.experimental_options["prefs"]["profile.password_manager_enabled"] = FALSE
    /\ v.experimental_options["prefs"]
          ["profile.default_content_setting_values.notifications"] = 2
    /\ v.experimental_options["prefs"]
          ["profile.password_manager_leak_detection"] = FALSE
    /\ v.experimental_options["prefs"]["password_manager_leak_detection"] = FALSE

HasFixedFlags(v) == v.arguments = FixedFlags

Calls == 1..Len(results)

\* How often flag f occurs in the argument sequence a.
Occurrences(a, f) == Cardinality({k \in DOMAIN a : a[k] = f})

-----------------------------------------------------------------------------
\* C1: every returned configuration's preferences map has exactly the five
\* fixed keys, each with its fixed value (false, false, 2, false, false).
C1_PrefsExact == \A i \in Calls : HasFixedPrefs(results[i].value)

C1_Witness ==
    /\ Len(results) >= 2
    /\ results[2].value.experimental_options["prefs"]
          ["profile.default_content_setting_values.notifications"] = 2
    /\ Cardinality(DOMAIN results[2].value.experimental_options["prefs"]) = 5

\* C2: every returned configuration's argument sequence has length 5 and is
\* the fixed list in the listed order; its third element (zero-indexed 2) is
\* --disable-popup-blocking.
C2_FlagsInOrder ==
    \A i \in Calls :
        /\ Len(results[i].value.arguments) = 5
        /\ HasFixedFlags(results[i].value)
        /\ results[i].value.arguments[3] = "--disable-popup-blocking"

C2_Witness ==
    /\ Len(results) >= 1
    /\ results[1].value.arguments[1] =
          "--disable-blink-features=AutomationControlled"
    /\ results[1].value.arguments[5] = "--disable-save-password-bubble"

\* C3: returned configurations are value-equal on return but independently
\* owned (distinct Options objects, distinct prefs dicts): after a caller adds
\* a flag or a preference to one of them, every other returned configuration,
\* earlier or later, still holds exactly the fixed preferences and flags.
C3_IndependentlyOwned ==
    /\ \A i, j \in Calls :
          i # j => /\ results[i].obj # results[j].obj
                   /\ results[i].prefsRef # results[j].prefsRef
                   /\ results[i].value = results[j].value
    /\ \A i \in Calls :
          (\A e \in extended : e.obj # results[i].obj)
             => /\ HasFixedPrefs(Val(results[i].obj))
                /\ HasFixedFlags(Val(results[i].obj))

\* The second configuration was extended by its caller after it was returned
\* and before the third call returned; the first and third were not.
C3_Witness ==
    \E e \in extended :
        /\ Len(results) >= 3
        /\ e.obj = results[2].obj
        /\ e.at = 2
        /\ Val(e.obj) # results[2].value
        /\ \A x \in extended : x.obj = e.obj

\* C4: N calls in sequence produce N value-equal results, made by the same
\* library calls: the k-th result does not depend on k.
C4_Idempotent ==
    \A i, j \in Calls :
        /\ results[i].value = results[j].value
        /\ results[i].log = results[j].log

C4_Witness ==
    /\ Len(results) >= 3
    /\ nExt > 0
    /\ results[1].value = results[3].value

\* C5: in every returned configuration each of the five fixed flags occurs
\* exactly once, also after earlier calls.
C5_EachFlagOnce ==
    \A i \in Calls :
        \A k \in 1..5 : Occurrences(results[i].value.arguments, FixedFlags[k]) = 1

C5_Witness ==
    /\ Len(results) >= 2
    /\ Occurrences(results[2].value.arguments, "--disable-extensions") = 1
    /\ Occurrences(results[2].value.arguments, "--disable-infobars") = 1

\* C6: a call that ran while another call was in progress, under whatever
\* interleaving of their statements, returns exactly the fixed preferences
\* and the fixed flags in order.
C6_ConcurrentCalls ==
    \A i \in Calls :
        results[i].conc => /\ HasFixedPrefs(results[i].value)
                           /\ HasFixedFlags(results[i].value)

\* Two calls whose statements interleaved: the call that created its Options
\* object second created its prefs dict first and returned first.
C6_Witness ==
    /\ Len(results) >= 2
    /\ results[1].conc
    /\ results[2].conc
    /\ results[1].obj = 2
    /\ results[1].prefsRef = 1

\* C7: a call cannot fail: no call raises, every call in progress can take
\* its next statement, and every call started has either returned an Options
\* object or is still in progress.
C7_CannotFail ==
    /\ \A t \in Threads : pc[t] # "raised"
    /\ \A t \in Threads : pc[t] \in InCall => ENABLED Step(t)
    /\ started = Len(results) + Cardinality({t \in Threads : pc[t] \in InCall})
    /\ \A i \in Calls : results[i].obj \in 1..Len(optHeap)

C7_Witness ==
    /\ Len(results) >= 2
    /\ started = Len(results)
    /\ \A t \in Threads : pc[t] = "idle"

\* C8: a statement of a call changes nothing but the calling thread's own
\* position and locals and the Options object it is building, which no caller
\* has been handed yet: receivers' attributes, every other Options object,
\* every existing dict, the other threads' locals and the results returned
\* so far stay as they were.
C8_NoSideEffects ==
    [][\A t \in Threads :
          pc'[t] # pc[t] =>
             /\ attrs' = attrs
             /\ options[t] # 0 => options[t] \notin Returned
             /\ \A o \in 1..Len(optHeap) :
                   o # options[t] => optHeap'[o] = optHeap[o]
             /\ \A d \in 1..Len(dictHeap) : dictHeap'[d] = dictHeap[d]
             /\ \A u \in Threads \ {t} :
                   /\ options'[u] = options[u]
                   /\ self'[u] = self[u]
                   /\ log'[u] = log[u]
             /\ SubSeq(results', 1, Len(results)) = results
             /\ extended' = extended]_vars

\* A call returned from a receiver that carried an attribute, with an earlier
\* configuration already handed out.
C8_Witness ==
    /\ Len(results) >= 2
    /\ DOMAIN results[2].selfAttrs # {}
    /\ attrs[results[2].self] = results[2].selfAttrs

\* C9: the result does not depend on the receiver: calls on different
\* instances, or on instances in different states, return value-equal
\* configurations.
C9_ReceiverIndependent ==
    \A i, j \in Calls :
        (\/ results[i].self # results[j].self
         \/ results[i].selfAttrs # results[j].selfAttrs)
            => results[i].value = results[j].value

C9_Witness ==
    \E i, j \in Calls :
        /\ results[i].self # results[j].self
        /\ DOMAIN results[i].selfAttrs = {}
        /\ DOMAIN results[j].selfAttrs # {}

\* C10: a call starts from an empty Options object, makes exactly one
\* add_experimental_option call and exactly five add_argument calls; the
\* returned configuration has "prefs" as its only experimental option, no
\* sixth flag, and both leak-detection keys as separate keys, both false.
C10_NothingBeyondPayload ==
    /\ \A t \in Threads : pc[t] = "L14" => optHeap[options[t]] = NewOptions
    /\ \A i \in Calls :
          /\ results[i].log =
                <<"Options", "add_experimental_option", "add_argument",
                  "add_argument", "add_argument", "add_argument", "add_argument">>
          /\ DOMAIN results[i].value.experimental_options = {"prefs"}
          /\ Len(results[i].value.arguments) = 5
          /\ {"profile.password_manager_leak_detection",
              "password_manager_leak_detection"}
                \subseteq DOMAIN results[i].value.experimental_options["prefs"]
          /\ results[i].value.experimental_options["prefs"]
                ["profile.password_manager_leak_detection"] = FALSE
          /\ results[i].value.experimental_options["prefs"]
                ["password_manager_leak_detection"] = FALSE

C10_Witness ==
    /\ Len(results) >= 1
    /\ Len(results[1].log) = 7
    /\ "password_manager_leak_detection"
          \in DOMAIN results[1].value.experimental_options["prefs"]
    /\ "profile.password_manager_leak_detection"
          \in DOMAIN results[1].value.experimental_options["prefs"]

====
